---- MODULE Spec2Model ----
(***************************************************************************)
(* Model of the torcode Bencode decoder (src/src/bencode.rs).              *)
(*                                                                         *)
(* A byte slice (&[u8]) is a sequence of byte values 0..255.  A parser     *)
(* result (nom's IResult) is either                                        *)
(*     [ok |-> TRUE,  rest |-> remaining slice, val |-> output]            *)
(* or  [ok |-> FALSE, err  |-> [input |-> slice at the error,              *)
(*                              code  |-> nom ErrorKind]]                  *)
(* which is nom's Err::Error with the default error type.  Neither         *)
(* Err::Failure nor Err::Incomplete is produced by the combinators used.   *)
(*                                                                         *)
(* An i64 / usize is kept as a decimal magnitude (a sequence of digits     *)
(* 0..9 without leading zeros, <<0>> for zero) with a sign, so that the    *)
(* 64-bit range checks of str::parse are the real ones.                    *)
(***************************************************************************)
EXTENDS Integers, Sequences, FiniteSets, TLC

VARIABLES input, pc, result, view

vars == <<input, pc, result, view>>

(***************************************************************************)
(* Byte literals of the grammar.                                           *)
(***************************************************************************)
CharI == 105
CharE == 101
CharL == 108
CharD == 100
CharColon == 58
CharMinus == 45
Char0 == 48
Char9 == 57

(***************************************************************************)
(* IResult constructors and nom's error combination for the default error  *)
(* type: ParseError::or keeps the later error, ParseError::append keeps    *)
(* the error it is given.                                                  *)
(***************************************************************************)
Ok(rest, val) == [ok |-> TRUE, rest |-> rest, val |-> val]

Error(i, code) == [ok |-> FALSE, err |-> [input |-> i, code |-> code]]

ErrorOr(first, other) == other

ErrorAppend(i, kind, other) == other

Drop(i, n) == SubSeq(i, n + 1, Len(i))

Take(i, n) == SubSeq(i, 1, n)

(***************************************************************************)
(* Decimal magnitudes.                                                     *)
(***************************************************************************)
RECURSIVE StripZeros(_)
StripZeros(ds) ==
    IF Len(ds) > 1 /\ Head(ds) = 0 THEN StripZeros(Tail(ds)) ELSE ds

RECURSIVE MagLess(_, _)
\* a < b for two magnitudes without leading zeros
MagLess(a, b) ==
    IF Len(a) # Len(b) THEN Len(a) < Len(b)
    ELSE IF Len(a) = 0 THEN FALSE
    ELSE IF Head(a) # Head(b) THEN Head(a) < Head(b)
    ELSE MagLess(Tail(a), Tail(b))

MagLeq(a, b) == a = b \/ MagLess(a, b)

RECURSIVE NatToMag(_)
NatToMag(n) == IF n < 10 THEN <<n>> ELSE Append(NatToMag(n \div 10), n % 10)

RECURSIVE MagToNat(_)
\* only used on magnitudes already known to be at most a slice length
MagToNat(ds) ==
    IF Len(ds) = 0 THEN 0
    ELSE 10 * MagToNat(SubSeq(ds, 1, Len(ds) - 1)) + ds[Len(ds)]

\* i64::MAX = 9223372036854775807
I64MaxMag == <<9,2,2,3,3,7,2,0,3,6,8,5,4,7,7,5,8,0,7>>

\* |i64::MIN| = 9223372036854775808
I64MinMag == <<9,2,2,3,3,7,2,0,3,6,8,5,4,7,7,5,8,0,8>>

\* usize::MAX on a 64-bit target = 18446744073709551615
UsizeMaxMag == <<1,8,4,4,6,7,4,4,0,7,3,7,0,9,5,5,1,6,1,5>>

(***************************************************************************)
(* str::parse::<i64> and str::parse::<usize> on a byte string: an optional *)
(* sign, then per digit checked_mul(10) and checked_add / checked_sub.     *)
(* A step overflows exactly when the new magnitude exceeds the limit.      *)
(***************************************************************************)
IsDigit(b) == b >= Char0 /\ b <= Char9

RECURSIVE AccumulateDigits(_, _, _)
AccumulateDigits(bytes, acc, limit) ==
    IF bytes = <<>> THEN [ok |-> TRUE, mag |-> acc]
    ELSE IF ~IsDigit(Head(bytes)) THEN [ok |-> FALSE]
    ELSE LET next == StripZeros(Append(acc, Head(bytes) - Char0))
         IN  IF MagLess(limit, next) THEN [ok |-> FALSE]
             ELSE AccumulateDigits(Tail(bytes), next, limit)

\* a parse whose negative range ends at -i64::MAX
ParseI64_symmetric(s) ==
    IF s = <<>> THEN [ok |-> FALSE]
    ELSE IF Head(s) = CharMinus
    THEN IF Len(s) = 1 THEN [ok |-> FALSE]
         ELSE LET r == AccumulateDigits(Tail(s), <<0>>, I64MaxMag)
              IN  IF r.ok THEN [ok |-> TRUE,
                                val |-> [neg |-> r.mag # <<0>>, mag |-> r.mag]]
                  ELSE [ok |-> FALSE]
    ELSE LET r == AccumulateDigits(s, <<0>>, I64MaxMag)
         IN  IF r.ok THEN [ok |-> TRUE, val |-> [neg |-> FALSE, mag |-> r.mag]]
             ELSE [ok |-> FALSE]

ParseI64(s) ==
    IF s = <<>> THEN [ok |-> FALSE]
    ELSE IF Head(s) = CharMinus
    THEN IF Len(s) = 1 THEN [ok |-> FALSE]
         ELSE LET r == AccumulateDigits(Tail(s), <<0>>, I64MinMag)
              IN  IF r.ok THEN [ok |-> TRUE,
                                val |-> [neg |-> r.mag # <<0>>, mag |-> r.mag]]
                  ELSE [ok |-> FALSE]
    ELSE LET r == AccumulateDigits(s, <<0>>, I64MaxMag)
         IN  IF r.ok THEN [ok |-> TRUE, val |-> [neg |-> FALSE, mag |-> r.mag]]
             ELSE [ok |-> FALSE]

ParseUsize(s) ==
    IF s = <<>> THEN [ok |-> FALSE]
    ELSE LET r == AccumulateDigits(s, <<0>>, UsizeMaxMag)
         IN  IF r.ok THEN [ok |-> TRUE, val |-> r.mag] ELSE [ok |-> FALSE]

(***************************************************************************)
(* std::str::from_utf8 / String::from_utf8: UTF-8 well-formedness.         *)
(***************************************************************************)
IsCont(i, k) == Len(i) >= k /\ i[k] >= 128 /\ i[k] <= 191

InRng(i, k, lo, hi) == Len(i) >= k /\ i[k] >= lo /\ i[k] <= hi

\* width of the well-formed scalar at the head of i, 0 if there is none
Utf8Width(i) ==
    LET b == Head(i) IN
    IF b < 128 THEN 1
    ELSE IF b >= 194 /\ b <= 223 THEN (IF IsCont(i, 2) THEN 2 ELSE 0)
    ELSE IF b = 224 THEN (IF InRng(i, 2, 160, 191) /\ IsCont(i, 3) THEN 3 ELSE 0)
    ELSE IF b = 237 THEN (IF InRng(i, 2, 128, 159) /\ IsCont(i, 3) THEN 3 ELSE 0)
    ELSE IF b >= 225 /\ b <= 239 THEN (IF IsCont(i, 2) /\ IsCont(i, 3) THEN 3 ELSE 0)
    ELSE IF b = 240
         THEN (IF InRng(i, 2, 144, 191) /\ IsCont(i, 3) /\ IsCont(i, 4) THEN 4 ELSE 0)
    ELSE IF b >= 241 /\ b <= 243
         THEN (IF IsCont(i, 2) /\ IsCont(i, 3) /\ IsCont(i, 4) THEN 4 ELSE 0)
    ELSE IF b = 244
         THEN (IF InRng(i, 2, 128, 143) /\ IsCont(i, 3) /\ IsCont(i, 4) THEN 4 ELSE 0)
    ELSE 0

RECURSIVE Utf8Valid(_)
Utf8Valid(i) ==
    IF i = <<>> THEN TRUE
    ELSE LET w == Utf8Width(i)
         IN  IF w = 0 THEN FALSE ELSE Utf8Valid(Drop(i, w))

(***************************************************************************)
(* nom primitives used by the grammar (complete versions).                 *)
(***************************************************************************)
char(c, i) ==
    IF i # <<>> /\ Head(i) = c THEN Ok(Tail(i), c) ELSE Error(i, "Char")

RECURSIVE DigitRun(_)
\* number of leading ASCII digits of i
DigitRun(i) ==
    IF i # <<>> /\ IsDigit(Head(i)) THEN 1 + DigitRun(Tail(i)) ELSE 0

digit1(i) ==
    LET n == DigitRun(i)
    IN  IF n = 0 THEN Error(i, "Digit") ELSE Ok(Drop(i, n), Take(i, n))

\* take that returns its input as the remainder: the cursor is not advanced
take_no_advance(len, i) ==
    IF MagLess(NatToMag(Len(i)), len) THEN Error(i, "Eof")
    ELSE Ok(i, Take(i, MagToNat(len)))

\* take that hands out the bytes there are when too few are left
take_short_read(len, i) ==
    IF MagLess(NatToMag(Len(i)), len) THEN Ok(<<>>, i)
    ELSE Ok(Drop(i, MagToNat(len)), Take(i, MagToNat(len)))

\* take(len) with len a usize magnitude
take(len, i) ==
    IF MagLess(NatToMag(Len(i)), len) THEN Error(i, "Eof")
    ELSE LET n == MagToNat(len) IN Ok(Drop(i, n), Take(i, n))

(***************************************************************************)
(* nom combinators, each given the result of its first parser.             *)
(***************************************************************************)
\* terminated whose second parser may fail
KeepFirst_lenient(first, t) ==
    IF t.ok THEN Ok(t.rest, first.val) ELSE Ok(first.rest, first.val)

\* terminated(first, second) once first has succeeded: the output of first
KeepFirst(first, t) == IF t.ok THEN Ok(t.rest, first.val) ELSE t

\* pair(first, second) once first has succeeded: both outputs
KeepBoth(first, t) == IF t.ok THEN Ok(t.rest, <<first.val, t.val>>) ELSE t

\* terminated(parser, char(c)) given parser's result
terminated_by(r, c) == IF r.ok THEN KeepFirst(r, char(c, r.rest)) ELSE r

\* opt(parser) on input i
opt(r, i) == IF r.ok THEN r ELSE Ok(i, <<>>)

\* recognize(parser) on input i: the consumed slice
recognize(r, i) ==
    IF r.ok THEN Ok(r.rest, Take(i, Len(i) - Len(r.rest))) ELSE r

\* map_res(parser, f) on input i, given parser's result r and f's result o
MapResOut(r, o, i) == IF o.ok THEN Ok(r.rest, o.val) ELSE Error(i, "MapRes")

(***************************************************************************)
(* The productions.                                                        *)
(***************************************************************************)
\* pair(opt(char('-')), digit1) after the optional sign
sign_digits(m) == IF m.ok THEN KeepBoth(m, digit1(m.rest)) ELSE m

\* recognize(pair(opt(char('-')), digit1))
signed_digit(i) == recognize(sign_digits(opt(char(CharMinus, i), i)), i)

parsed_num_out(r, i) == IF r.ok THEN MapResOut(r, ParseI64(r.val), i) ELSE r

\* map_res(signed_digit, |s| from_utf8(s).unwrap().parse::<i64>())
parsed_num(i) == parsed_num_out(signed_digit(i), i)

\* preceded(char('i'), parsed_num) given the result of char('i')
number_body(p) == IF p.ok THEN parsed_num(p.rest) ELSE p

\* terminated(preceded(char('i'), parsed_num), char('e'))
parse_number(i) == terminated_by(number_body(char(CharI, i)), CharE)

parse_length_out(r, i) == IF r.ok THEN MapResOut(r, ParseUsize(r.val), i) ELSE r

\* map_res(terminated(digit1, char(':')), |s| from_utf8(s).unwrap().parse::<usize>())
parse_length(i) == parse_length_out(terminated_by(digit1(i), CharColon), i)

\* |s: &[u8]| s.to_vec()
to_vec(s) == s

\* map(take(len), to_vec) given the result of take
taken(t) == IF t.ok THEN Ok(t.rest, to_vec(t.val)) ELSE t

\* let (left, len) = parse_length(i)?; the rest of parse_bytes
parse_bytes_left(l) == IF l.ok THEN taken(take(l.val, l.rest)) ELSE l

parse_bytes(i) == parse_bytes_left(parse_length(i))

\* String::from_utf8
StringFromUtf8(b) ==
    IF Utf8Valid(b) THEN [ok |-> TRUE, val |-> b] ELSE [ok |-> FALSE]

parse_string_out(r, i) ==
    IF r.ok THEN MapResOut(r, StringFromUtf8(r.val), i) ELSE r

\* map_res(parse_bytes, String::from_utf8)
parse_string(i) == parse_string_out(parse_bytes(i), i)

BNumber(n) == [type |-> "BNumber", n |-> n]

BBytes(b) == [type |-> "BBytes", bytes |-> b]

BList(l) == [type |-> "BList", list |-> l]

BDict(m) == [type |-> "BDict", dict |-> m]

RECURSIVE collect(_)
\* s.into_iter().collect::<HashMap<_, _>>(): later pairs replace earlier ones
collect(kvs) ==
    IF kvs = <<>> THEN <<>>
    ELSE (kvs[Len(kvs)][1] :> kvs[Len(kvs)][2])
             @@ collect(SubSeq(kvs, 1, Len(kvs) - 1))

RECURSIVE from_bytes(_), values_more(_, _), kv_more(_, _)

\* pair(parse_string, BValue::from_bytes) given the result of parse_string
kv_value(k) == IF k.ok THEN KeepBoth(k, from_bytes(k.rest)) ELSE k

\* pair(parse_string, BValue::from_bytes)
kv_pair(i) == kv_value(parse_string(i))

\* a repetition that puts each later element in front of the earlier ones
values_step_prepend(r, i, acc) ==
    IF ~r.ok THEN Ok(i, acc)
    ELSE IF Len(r.rest) = Len(i) THEN Error(i, "Many1")
    ELSE values_more(r.rest, <<r.val>> \o acc)

\* many1 on a later element, given its result r on input i: an error ends
\* the repetition, and an element that consumed nothing is an error
values_step(r, i, acc) ==
    IF ~r.ok THEN Ok(i, acc)
    ELSE IF Len(r.rest) = Len(i) THEN Error(i, "Many1")
    ELSE values_more(r.rest, Append(acc, r.val))

values_more(i, acc) == values_step(from_bytes(i), i, acc)

\* many0: no element at all is accepted
values_first_many0(r, i) ==
    IF r.ok THEN values_more(r.rest, <<r.val>>) ELSE Ok(i, <<>>)

\* many1 on its first element, given its result r on input i: its error is
\* handed to ParseError::append
values_first(r, i) ==
    IF r.ok THEN values_more(r.rest, <<r.val>>)
    ELSE [ok |-> FALSE, err |-> ErrorAppend(i, "Many1", r.err)]

\* many1(BValue::from_bytes)
many1_values(i) == values_first(from_bytes(i), i)

kv_step(r, i, acc) ==
    IF ~r.ok THEN Ok(i, acc)
    ELSE IF Len(r.rest) = Len(i) THEN Error(i, "Many1")
    ELSE kv_more(r.rest, Append(acc, r.val))

kv_more(i, acc) == kv_step(kv_pair(i), i, acc)

kv_first(r, i) ==
    IF r.ok THEN kv_more(r.rest, <<r.val>>)
    ELSE [ok |-> FALSE, err |-> ErrorAppend(i, "Many1", r.err)]

\* many1(pair(parse_string, BValue::from_bytes))
many1_kv(i) == kv_first(kv_pair(i), i)

\* preceded(char('l'), ...) given the result of char('l')
list_body(p) == IF p.ok THEN many1_values(p.rest) ELSE p

\* preceded(char('l'), terminated(values, char('e')))
parse_list(i) == terminated_by(list_body(char(CharL, i)), CharE)

\* preceded(char('d'), kv) given the result of char('d')
dict_body(p) == IF p.ok THEN many1_kv(p.rest) ELSE p

\* map(kv, |s| s.into_iter().collect())
collected(r) == IF r.ok THEN Ok(r.rest, collect(r.val)) ELSE r

parse_dict(i) == collected(terminated_by(dict_body(char(CharD, i)), CharE))

\* map(parser, variant) given parser's result
variant(r, tag) ==
    IF ~r.ok THEN r
    ELSE Ok(r.rest,
            CASE tag = "BNumber" -> BNumber(r.val)
              [] tag = "BBytes" -> BBytes(r.val)
              [] tag = "BList" -> BList(r.val)
              [] tag = "BDict" -> BDict(r.val))

bnumber(i) == variant(parse_number(i), "BNumber")

bbytes(i) == variant(parse_bytes(i), "BBytes")

blist(i) == variant(parse_list(i), "BList")

bdict(i) == variant(parse_dict(i), "BDict")

\* alt after its last parser: the combined error goes to ParseError::append
alt_end(i, e, d) ==
    IF d.ok THEN d
    ELSE [ok |-> FALSE, err |-> ErrorAppend(i, "Alt", ErrorOr(e, d.err))]

\* alt after blist: bdict is tried on Err::Error only
alt_dict(i, e, l) ==
    IF l.ok THEN l ELSE alt_end(i, ErrorOr(e, l.err), bdict(i))

\* alt after bbytes
alt_list(i, e, b) ==
    IF b.ok THEN b ELSE alt_dict(i, ErrorOr(e, b.err), blist(i))

\* alt after bnumber
alt_bytes(i, n) == IF n.ok THEN n ELSE alt_list(i, n.err, bbytes(i))

\* alt((bnumber, bbytes, blist, bdict))(i)
from_bytes(i) == alt_bytes(i, bnumber(i))

from_string(s) == from_bytes(s)

(***************************************************************************)
(* Accessors.  The outcome of a call is Some(payload), None, or a panic    *)
(* (Result::unwrap on an Err).                                             *)
(***************************************************************************)
Some(x) == [kind |-> "Some", val |-> x]

None == [kind |-> "None"]

Panic == [kind |-> "Panic"]

get_number(v) == IF v.type = "BNumber" THEN Some(v.n) ELSE None

get_bytes(v) == IF v.type = "BBytes" THEN Some(v.bytes) ELSE None

get_list(v) == IF v.type = "BList" THEN Some(v.list) ELSE None

get_dict(v) == IF v.type = "BDict" THEN Some(v.dict) ELSE None

get_string(v) ==
    LET b == get_bytes(v)
    IN  IF b.kind = "Some"
        THEN (IF Utf8Valid(b.val) THEN Some(b.val) ELSE Panic)
        ELSE None

(***************************************************************************)
(* Inputs.  Three families of byte buffers are decoded:                    *)
(*   - every buffer of at most MaxLen bytes over Alphabet, together with   *)
(*     the literal fixtures of the tests;                                  *)
(*   - every concatenation of at most MaxTokens grammar fragments;         *)
(*   - digit runs around the 64-bit limits, as integers and as lengths.    *)
(***************************************************************************)
MaxLen == 5

MaxTokens == 6

MaxPad == 1

MaxPayload == 3

\* "i", "e", "l", "d", ":", "-", "0", "1", "a" and the byte FF, which is
\* never part of UTF-8 text
Alphabet ==
    {CharI, CharE, CharL, CharD, CharColon, CharMinus, Char0, Char0 + 1,
     97, 255}

SeqsUpTo(S, n) == UNION {[1..k -> S] : k \in 0..n}

\* "i3eXYZ", "i3228e", "i-3228e", "12:Hello World!", "l4:spam4:eggse",
\* "d3:cow3:moo4:spam4:eggse", "5:ab"
Fixtures ==
    { <<105,51,101,88,89,90>>,
      <<105,51,50,50,56,101>>,
      <<105,45,51,50,50,56,101>>,
      <<49,50,58,72,101,108,108,111,32,87,111,114,108,100,33>>,
      <<108,52,58,115,112,97,109,52,58,101,103,103,115,101>>,
      <<100,51,58,99,111,119,51,58,109,111,111,52,58,115,112,97,109,52,58,
        101,103,103,115,101>>,
      <<53,58,97,98>> }

ByteInputs == SeqsUpTo(Alphabet, MaxLen) \cup Fixtures

\* "d", "l", "e", "1:a", "1:<FF>", "i1e"
Tokens ==
    { <<CharD>>, <<CharL>>, <<CharE>>,
      <<Char0 + 1, CharColon, 97>>,
      <<Char0 + 1, CharColon, 255>>,
      <<CharI, Char0 + 1, CharE>> }

RECURSIVE Flatten(_)
Flatten(ts) == IF ts = <<>> THEN <<>> ELSE Head(ts) \o Flatten(Tail(ts))

TokenInputs == {Flatten(ts) : ts \in SeqsUpTo(Tokens, MaxTokens)}

Digits(ds) == [k \in 1..Len(ds) |-> Char0 + ds[k]]

Mags ==
    { <<0>>, <<1>>, <<2>>, <<3>>, <<1,2>>,
      <<9,2,2,3,3,7,2,0,3,6,8,5,4,7,7,5,8,0,6>>,
      I64MaxMag, I64MinMag,
      <<9,2,2,3,3,7,2,0,3,6,8,5,4,7,7,5,8,0,9>>,
      <<9,2,2,3,3,7,2,0,3,6,8,5,4,7,7,5,8,1,0>>,
      UsizeMaxMag,
      <<1,8,4,4,6,7,4,4,0,7,3,7,0,9,5,5,1,6,1,6>>,
      <<9,9,9,9,9,9,9,9,9,9,9,9,9,9,9,9,9,9,9,9>> }

Zeros(k) == [j \in 1..k |-> Char0]

DigitRuns == {<<>>} \cup {Zeros(k) \o Digits(m) : k \in 0..MaxPad, m \in Mags}

Prefixes == {<<>>, <<CharI>>, <<CharI, CharMinus>>, <<CharMinus>>}

Suffixes ==
    {<<>>, <<CharE>>, <<CharE, CharE>>} \cup
    {<<CharColon>> \o p : p \in SeqsUpTo({97, CharE, 255}, MaxPayload)}

DigitInputs ==
    {p \o r \o s : p \in Prefixes, r \in DigitRuns, s \in Suffixes}

(***************************************************************************)
(* The state machine: a buffer is decoded once through one of the two      *)
(* entry points; the accessors are then called on the decoded value.       *)
(***************************************************************************)
NoResult == [ok |-> FALSE, err |-> [input |-> <<>>, code |-> "NotRun"]]

NoView == [op |-> "none", out |-> None]

InitWith(S) ==
    /\ input \in S
    /\ pc = "start"
    /\ result = NoResult
    /\ view = NoView

Init == InitWith(ByteInputs)

InitTokens == InitWith(TokenInputs)

InitDigits == InitWith(DigitInputs)

FromBytes ==
    /\ pc = "start"
    /\ result' = from_bytes(input)
    /\ pc' = "decoded"
    /\ UNCHANGED <<input, view>>

\* a &str is well-formed UTF-8
FromString ==
    /\ pc = "start"
    /\ Utf8Valid(input)
    /\ result' = from_string(input)
    /\ pc' = "decoded"
    /\ UNCHANGED <<input, view>>

\* the accessors borrow the value and leave it as it is, so one call after
\* the decode shows all that any sequence of calls can show
Access(op, out) ==
    /\ pc = "decoded"
    /\ result.ok
    /\ view' = [op |-> op, out |-> out]
    /\ pc' = "viewed"
    /\ UNCHANGED <<input, result>>

GetNumber == Access("get_number", get_number(result.val))

GetBytes == Access("get_bytes", get_bytes(result.val))

GetList == Access("get_list", get_list(result.val))

GetDict == Access("get_dict", get_dict(result.val))

GetString == Access("get_string", get_string(result.val))

Next ==
    \/ FromBytes
    \/ FromString
    \/ GetNumber
    \/ GetBytes
    \/ GetList
    \/ GetDict
    \/ GetString

Spec == Init /\ [][Next]_vars

SpecTokens == InitTokens /\ [][Next]_vars

SpecDigits == InitDigits /\ [][Next]_vars

(***************************************************************************)
(* Reference readings of an input, used to state the properties.           *)
(***************************************************************************)
Decoded == pc \in {"decoded", "viewed"}

\* the numeric value of a run of ASCII digits, as a magnitude
RunMag(run) == StripZeros([k \in 1..Len(run) |-> run[k] - Char0])

StartsWith(i, b) == i # <<>> /\ Head(i) = b

RECURSIVE ValuesWalk(_, _)
\* the values decoded one after another from i, and where the walk stops
ValuesWalk(i, acc) ==
    IF from_bytes(i).ok
    THEN ValuesWalk(from_bytes(i).rest, Append(acc, from_bytes(i).val))
    ELSE [stop |-> i, vals |-> acc]

RECURSIVE PairsWalk(_, _)
\* the <<key, value>> pairs read one after another from i, a key being any
\* length-prefixed byte string, and where the walk stops
PairsWalk(i, acc) ==
    IF parse_bytes(i).ok /\ from_bytes(parse_bytes(i).rest).ok
    THEN PairsWalk(from_bytes(parse_bytes(i).rest).rest,
                   Append(acc, <<parse_bytes(i).val,
                                 from_bytes(parse_bytes(i).rest).val>>))
    ELSE [stop |-> i, pairs |-> acc]

RECURSIVE CodePairsStop(_)
\* where the decoder's own key/value repetition stops
CodePairsStop(i) ==
    IF kv_pair(i).ok THEN CodePairsStop(kv_pair(i).rest) ELSE i

\* the place at which the element repetition of a list or dictionary stops
StopOf(i) ==
    IF StartsWith(i, CharL) THEN ValuesWalk(Tail(i), <<>>).stop
    ELSE CodePairsStop(Tail(i))

IsContainer(i) == StartsWith(i, CharL) \/ StartsWith(i, CharD)

\* the repetition stops at something that is not the closing "e"
StopsBeforeEnd(i) == IsContainer(i) /\ ~StartsWith(StopOf(i), CharE)

\* some element was decoded, and then an element, key or value failed
ChildFailsAfterSome(i) ==
    /\ StopsBeforeEnd(i)
    /\ StopOf(i) # <<>>
    /\ Len(StopOf(i)) < Len(i) - 1

(***************************************************************************)
(* C1.  On success the remainder is a proper suffix of the input, the      *)
(* value is the one decoded from the consumed bytes alone, and trailing    *)
(* bytes are returned untouched: "i3eXYZ" gives Integer 3 and "XYZ".       *)
(***************************************************************************)
ConsumedOk(k) ==
    /\ result.rest = Drop(input, k)
    /\ from_bytes(Take(input, k)) = Ok(<<>>, result.val)

\* C1: a successful decode consumes at least one byte and returns the rest of
\* the input untouched; the value is that of the consumed bytes alone.
C1_RemainderIsSuffix ==
    Decoded =>
        /\ result.ok => \E k \in 1..Len(input) : ConsumedOk(k)
        /\ input = <<105, 51, 101, 88, 89, 90>> =>
               result = Ok(<<88, 89, 90>>, BNumber([neg |-> FALSE, mag |-> <<3>>]))

C1_Witness ==
    /\ Decoded
    /\ result.ok
    /\ result.val.type = "BList"
    /\ result.rest # <<>>

(***************************************************************************)
(* C2.  <n> ":" <bytes>: with at least n bytes after the colon the result  *)
(* is the ByteString of exactly the next n bytes and the remainder starts  *)
(* right after them; with fewer the decode fails.                          *)
(***************************************************************************)
LenRun == Take(input, DigitRun(input))

IsBytesForm ==
    /\ DigitRun(input) >= 1
    /\ StartsWith(Drop(input, DigitRun(input)), CharColon)

Payload == Drop(input, DigitRun(input) + 1)

EnoughBytes == MagLeq(RunMag(LenRun), NatToMag(Len(Payload)))

\* C2: a length-prefixed string yields exactly its next n bytes, or fails when
\* fewer than n bytes follow the colon.
C2_ByteStringExact ==
    (Decoded /\ IsBytesForm) =>
        IF EnoughBytes
        THEN result = Ok(Drop(Payload, MagToNat(RunMag(LenRun))),
                         BBytes(Take(Payload, MagToNat(RunMag(LenRun)))))
        ELSE ~result.ok

C2_Witness ==
    /\ Decoded
    /\ IsBytesForm
    /\ RunMag(LenRun) = <<2>>
    /\ Len(Payload) > 2
    /\ result.ok
    /\ Len(result.val.bytes) = 2

(***************************************************************************)
(* C3.  "i" "-"? <digits> "e": the decode succeeds, with the decimal value *)
(* of the signed digit run, exactly when that value is in                  *)
(* [-2^63, 2^63 - 1]; leading zeros and "-0" are accepted.                 *)
(***************************************************************************)
IntNeg == StartsWith(Tail(input), CharMinus)

IntBody == IF IntNeg THEN Drop(input, 2) ELSE Drop(input, 1)

IntRun == Take(IntBody, DigitRun(IntBody))

IsIntForm ==
    /\ StartsWith(input, CharI)
    /\ DigitRun(IntBody) >= 1
    /\ StartsWith(Drop(IntBody, DigitRun(IntBody)), CharE)

IntInRange ==
    IF IntNeg THEN MagLeq(RunMag(IntRun), I64MinMag)
    ELSE MagLeq(RunMag(IntRun), I64MaxMag)

\* C3: an integer decodes to its decimal value exactly when the value fits
\* a signed 64-bit integer.
C3_IntegerRange ==
    (Decoded /\ IsIntForm) =>
        IF IntInRange
        THEN result = Ok(Drop(IntBody, DigitRun(IntBody) + 1),
                         BNumber([neg |-> IntNeg /\ RunMag(IntRun) # <<0>>,
                                  mag |-> RunMag(IntRun)]))
        ELSE ~result.ok

C3_Witness ==
    /\ Decoded
    /\ IsIntForm
    /\ IntNeg
    /\ RunMag(IntRun) = I64MinMag
    /\ Len(IntRun) > Len(I64MinMag)
    /\ result.ok

(***************************************************************************)
(* C4.  get_string is total: on a ByteString that is not UTF-8 it reports  *)
(* absence and does not panic; on any other variant it returns None.       *)
(***************************************************************************)
\* C4: get_string never panics, and is None on every variant but BBytes.
C4_GetStringTotal ==
    view.op = "get_string" =>
        /\ view.out.kind # "Panic"
        /\ result.val.type # "BBytes" => view.out = None

(***************************************************************************)
(* C5.  A dictionary of one key that is a well-formed byte string, a valid *)
(* value and "e" decodes, whatever the key's bytes are, and keeps the key  *)
(* as its raw bytes.                                                       *)
(***************************************************************************)
OnePairForm ==
    /\ StartsWith(input, CharD)
    /\ Len(PairsWalk(Tail(input), <<>>).pairs) = 1
    /\ StartsWith(PairsWalk(Tail(input), <<>>).stop, CharE)

\* C5: a one-pair dictionary decodes whatever bytes its key holds, the key
\* being kept as raw bytes.
C5_RawBytesKey ==
    (Decoded /\ OnePairForm) =>
        /\ result.ok
        /\ result.val.type = "BDict"
        /\ DOMAIN result.val.dict = {PairsWalk(Tail(input), <<>>).pairs[1][1]}

(***************************************************************************)
(* C6.  "d" <pairs> "e": the result is the Dictionary whose keys are the   *)
(* keys of the input, each mapped to the value of its last occurrence.     *)
(***************************************************************************)
InputPairs == PairsWalk(Tail(input), <<>>).pairs

IsDictForm ==
    /\ StartsWith(input, CharD)
    /\ Len(InputPairs) >= 1
    /\ StartsWith(PairsWalk(Tail(input), <<>>).stop, CharE)

LastIndex(ps, key) ==
    CHOOSE n \in 1..Len(ps) :
        /\ ps[n][1] = key
        /\ \A m \in (n + 1)..Len(ps) : ps[m][1] # key

LastWins(ps) ==
    [key \in {ps[n][1] : n \in 1..Len(ps)} |-> ps[LastIndex(ps, key)][2]]

DictAsRead ==
    result = Ok(Tail(PairsWalk(Tail(input), <<>>).stop), BDict(LastWins(InputPairs)))

\* C6: a dictionary input decodes to its keys, each with the value of its
\* last occurrence.
C6_LastKeyWins == (Decoded /\ IsDictForm) => DictAsRead

\* the same for inputs all of whose keys are UTF-8 text
C6_LastKeyWinsTextKeys ==
    (Decoded /\ IsDictForm /\ \A n \in 1..Len(InputPairs) : Utf8Valid(InputPairs[n][1]))
        => DictAsRead

(***************************************************************************)
(* C7.  "l" <values> "e", each value being one the value decoder decodes:  *)
(* the result is the List of those values, one element each, in input      *)
(* order, and the remainder starts right after the closing "e".            *)
(***************************************************************************)
InputValues == ValuesWalk(Tail(input), <<>>)

IsListForm ==
    /\ StartsWith(input, CharL)
    /\ Len(InputValues.vals) >= 1
    /\ StartsWith(InputValues.stop, CharE)

\* C7: a list input decodes to its values, one element each, in input order,
\* with the remainder right after the closing "e".
C7_ListInOrder ==
    (Decoded /\ IsListForm) =>
        result = Ok(Tail(InputValues.stop), BList(InputValues.vals))

\* a list whose first element is itself a list
C7_Witness ==
    /\ Decoded
    /\ IsListForm
    /\ Len(InputValues.vals) >= 2
    /\ InputValues.vals[1].type = "BList"
    /\ InputValues.vals[1] # InputValues.vals[2]
    /\ result.ok

(***************************************************************************)
(* C8.  "le" and "de" are parse failures, alone, followed by any bytes, or *)
(* nested: no decoded value holds an empty List or an empty Dictionary.    *)
(***************************************************************************)
RECURSIVE NoEmptyContainer(_)
NoEmptyContainer(v) ==
    IF v.type = "BList"
    THEN v.list # <<>> /\ \A n \in 1..Len(v.list) : NoEmptyContainer(v.list[n])
    ELSE IF v.type = "BDict"
    THEN DOMAIN v.dict # {} /\ \A key \in DOMAIN v.dict : NoEmptyContainer(v.dict[key])
    ELSE TRUE

IsEmptyContainer(i) == IsContainer(i) /\ StartsWith(Tail(i), CharE)

\* C8: "le" and "de" fail, and no decoded value holds an empty List or
\* Dictionary.
C8_EmptyContainerFails ==
    Decoded =>
        /\ IsEmptyContainer(input) => ~result.ok
        /\ result.ok => NoEmptyContainer(result.val)

\* a list whose second element is "le" or "de"
C8_Witness ==
    /\ Decoded
    /\ StartsWith(input, CharL)
    /\ Len(InputValues.vals) = 1
    /\ IsEmptyContainer(InputValues.stop)
    /\ ~result.ok

(***************************************************************************)
(* C9.  No partial tree: when the elements of a list or dictionary stop    *)
(* at anything but the closing "e" (an element, key or value that fails,   *)
(* at whatever depth the failure lies inside it), the decode fails.        *)
(***************************************************************************)
\* C9: a list or dictionary whose elements stop at anything but the closing
\* "e" fails as a whole.
C9_NoPartialTree == (Decoded /\ StopsBeforeEnd(input)) => ~result.ok

\* a list whose first element decodes and whose second element is a list
\* that itself holds a failing element after a good one
C9_Witness ==
    /\ Decoded
    /\ StartsWith(input, CharL)
    /\ ChildFailsAfterSome(input)
    /\ ChildFailsAfterSome(StopOf(input))
    /\ ~result.ok

(***************************************************************************)
(* C10.  When an element, key or value fails inside a list or dictionary,  *)
(* the error of the decode is the error of the innermost failing           *)
(* production, at its own place in the input.                              *)
(***************************************************************************)
RECURSIVE InnermostError(_)
\* the error of the innermost production that fails in decoding a value at i
InnermostError(i) ==
    IF StartsWith(i, CharI) THEN parse_number(i).err
    ELSE IF i # <<>> /\ IsDigit(Head(i)) THEN parse_bytes(i).err
    ELSE IF StartsWith(i, CharL)
    THEN (IF StopOf(i) = <<>> THEN parse_list(i).err
          ELSE InnermostError(StopOf(i)))
    ELSE IF StartsWith(i, CharD)
    THEN (IF StopOf(i) = <<>> \/ ~IsDigit(Head(StopOf(i))) THEN parse_dict(i).err
          ELSE IF ~parse_string(StopOf(i)).ok THEN parse_string(StopOf(i)).err
          ELSE InnermostError(parse_string(StopOf(i)).rest))
    ELSE from_bytes(i).err

\* C10: the error of a failed list or dictionary is the error of the
\* innermost failing production.
C10_ChildErrorUnchanged ==
    (Decoded /\ ChildFailsAfterSome(input)) =>
        /\ ~result.ok
        /\ result.err = InnermostError(input)

====
